---- MODULE Spec2Model ----
(***************************************************************************)
(* TrainingData.create_training_df of sdmdl/data_prep/training_data.py:    *)
(* for every species of oh.name the occurrence table is read, every        *)
(* occurrence is resolved to a raster cell, every band is sampled at these *)
(* cells (standardised below scaled_len, passed through above), the table  *)
(* is assembled, rows holding NaN are dropped and the table is written.    *)
(*                                                                         *)
(* Numbers that pandas/numpy hold as floats are exact rationals <<n, d>>   *)
(* in lowest terms with d > 0; d = 0 encodes the IEEE results of a         *)
(* division by zero: <<1,0>> = inf, <<-1,0>> = -inf, <<0,0>> = NaN.        *)
(* Python's 0-based positions are kept in the names (band j, row r, col c, *)
(* occurrence label i-1); TLA+ sequences are 1-based, so element k of a    *)
(* Python list is element k+1 of the sequence that models it.              *)
(***************************************************************************)
EXTENDS Integers, Sequences, FiniteSets, TLC

\* Longest occurrence table read for a species.
MaxOcc == 2

\* training_data.py:90,96  `value < -1000`
NoDataBelow == -1000

-----------------------------------------------------------------------------
(* Float arithmetic *)

Abs(x) == IF x < 0 THEN -x ELSE x

RECURSIVE GCD(_, _)
GCD(a, b) == IF b = 0 THEN a ELSE GCD(b, a % b)

\* np.nan
NaN == <<0, 0>>

\* an integer raster value / coordinate / label as a float cell
Num(n) == <<n, 1>>

\* numpy scalar division n / d (a zero divisor gives inf, -inf or nan)
Frac(n, d) ==
    IF d = 0
    THEN (IF n > 0 THEN <<1, 0>> ELSE IF n < 0 THEN <<-1, 0>> ELSE NaN)
    ELSE LET g == GCD(Abs(n), Abs(d))
             s == IF d < 0 THEN -1 ELSE 1
         IN  <<(s * n) \div g, (s * d) \div g>>

\* pandas isna on one cell
isna(x) == x = NaN

-----------------------------------------------------------------------------
(* Inputs on disk *)

\* stacked_env_variables.tif: the affine transform (north-up, square pixels)
Transform == [west |-> 10, north |-> 50, res |-> 2]

\* stacked_env_variables.tif as ReadAsArray returns it: bands x rows x columns
StackFile ==
    << << <<-9999,    14>>, <<    8, 12>> >>,
       << <<    7, -1000>>, <<    1,  4>> >>,
       << <<    3, -1000>>, <<-1001,  5>> >> >>

\* env_bio_mean_std.txt: one row (index, mean, stddev) per standardised band
StatsFile == << <<0, 10, 2>>, <<1, 4, 3>> >>

\* gh.names: the display name of every band, in raster band order
BandNames == <<"bio1", "bio12", "landcover">>

\* Species names are sequences of characters (str.replace acts on characters).
QuercusSp == <<"Q", " ", "r">>
QuercusUs == <<"Q", "_", "r">>
FagusSp   == <<"F", " ", "s">>
\* the species in the order the occurrence handler lists them
SpeciesOrder == <<QuercusSp, QuercusUs, FagusSp>>

\* oh.name: one or two distinct species, in that order
SpeciesLists ==
    {<<SpeciesOrder[a]>> : a \in 1..Len(SpeciesOrder)}
      \cup {<<SpeciesOrder[p[1]], SpeciesOrder[p[2]]>> :
                p \in {q \in (1..Len(SpeciesOrder)) \X (1..Len(SpeciesOrder)) : q[1] < q[2]}}

\* Rows an occurrence file <species>_ppa_dataframe.csv may hold.
\* With Transform they resolve to the cells (1,1) (0,0) (0,1) (1,0) (-1,1) (1,2).
OccPool ==
    { [dLon |-> 13, dLat |-> 47, ppa |-> 1],
      [dLon |-> 11, dLat |-> 49, ppa |-> 0],
      [dLon |-> 12, dLat |-> 50, ppa |-> 1],
      [dLon |-> 10, dLat |-> 48, ppa |-> 0],
      [dLon |-> 13, dLat |-> 51, ppa |-> 0],
      [dLon |-> 14, dLat |-> 47, ppa |-> 1] }

RECURSIVE SeqsUpTo(_, _)
SeqsUpTo(S, n) ==
    IF n = 0 THEN {<<>>}
    ELSE LET shorter == SeqsUpTo(S, n - 1)
         IN  shorter \cup {Append(s, x) : s \in {t \in shorter : Len(t) = n - 1}, x \in S}

OccTables == SeqsUpTo(OccPool, MaxOcc)

-----------------------------------------------------------------------------
(* pandas / numpy / rasterio helpers *)

\* RangeIndex(n): the labels "0" .. "n-1"
RangeIndex(n) == [k \in 1..n |-> ToString(k - 1)]

\* data[column]: a Series carrying the table's RangeIndex
Series(data, column) ==
    [index  |-> RangeIndex(Len(data)),
     values |-> [k \in 1..Len(data) |-> Num(data[k][column])]]

\* str.replace(old, new) for one-character old and new
Replace(s, old, new) == [k \in 1..Len(s) |-> IF s[k] = old THEN new ELSE s[k]]

\* rasterio src.index(lon, lat): floor of the inverse affine transform
index(lon, lat) ==
    << (Transform.north - lat) \div Transform.res,
       (lon - Transform.west) \div Transform.res >>

\* numpy accepts position p on an axis of length n when -n <= p < n
Indexable(p, n) == -n <= p /\ p < n

\* numpy maps a negative position to n + p
Wrap(p, n) == IF p < 0 THEN n + p ELSE p

\* band[r, c] for band = myarray[j]
Cell(arr, j, r, c) ==
    LET band == arr[j + 1]
    IN  band[Wrap(r, Len(band)) + 1][Wrap(c, Len(band[1])) + 1]

\* item reading the first row whatever the band
itemRow0(tbl, j, k) == tbl[1][k + 1]

\* mean_std.item((j, k))
item(tbl, j, k) == tbl[j + 1][k + 1]

\* df.columns[0:n], zip(a, b): both stop at the shorter length
Min(a, b) == IF a < b THEN a ELSE b
Head0(s, n) == SubSeq(s, 1, Min(n, Len(s)))
zip(a, b) == [k \in 1..Min(Len(a), Len(b)) |-> <<a[k], b[k]>>]

\* pd.DataFrame(X) for a list X of equally long lists: one row per list
DataFrame(X) ==
    [index   |-> RangeIndex(Len(X)),
     columns |-> RangeIndex(IF Len(X) = 0 THEN 0 ELSE Len(X[1])),
     rows    |-> X]

\* df.T
Transpose(df) ==
    [index   |-> df.columns,
     columns |-> df.index,
     rows    |-> [c \in 1..Len(df.columns) |->
                     [r \in 1..Len(df.index) |-> df.rows[r][c]]]]

\* the value a Series holds under an index label, NaN when it has none
Lookup(s, label) ==
    IF \E k \in 1..Len(s.index) : s.index[k] = label
    THEN s.values[CHOOSE k \in 1..Len(s.index) : s.index[k] = label]
    ELSE NaN

\* df[label] = values for a column label the frame does not have yet
AddColumn(df, label, values) ==
    [df EXCEPT !.columns = Append(@, label),
               !.rows = [r \in 1..Len(df.index) |-> Append(df.rows[r], values[r])]]

\* df[label] = series: aligned on the index labels
SetSeries(df, label, s) ==
    AddColumn(df, label, [r \in 1..Len(df.index) |-> Lookup(s, df.index[r])])

\* row_n taken from the occurrence's position instead of the list
SetListPosition(df, label, list) ==
    AddColumn(df, label, [r \in 1..Len(df.index) |-> Num(r - 1)])

\* df[label] = list: by position
SetList(df, label, list) ==
    AddColumn(df, label, [r \in 1..Len(df.index) |-> Num(list[r])])

\* rename whose result is thrown away (no inplace, no assignment)
renameNotInPlace(df, pairs) == df

\* df.rename(columns=dict(pairs)): a later pair wins over an earlier one
rename(df, pairs) ==
    LET hits(l) == {k \in 1..Len(pairs) : pairs[k][1] = l}
        last(K) == CHOOSE k \in K : \A m \in K : m <= k
    IN  [df EXCEPT !.columns =
            [c \in 1..Len(df.columns) |->
                IF hits(df.columns[c]) = {} THEN df.columns[c]
                ELSE pairs[last(hits(df.columns[c]))][2]]]

\* the positions of the rows no cell of which is NaN, in order
RECURSIVE CompleteRows(_, _)
CompleteRows(rows, r) ==
    IF r > Len(rows) THEN <<>>
    ELSE IF \E c \in 1..Len(rows[r]) : isna(rows[r][c])
         THEN CompleteRows(rows, r + 1)
         ELSE <<r>> \o CompleteRows(rows, r + 1)

\* dropna that relabels the kept rows 0, 1, ... by position
dropnaPositional(df) ==
    LET keep == CompleteRows(df.rows, 1)
    IN  [df EXCEPT !.index = [k \in 1..Len(keep) |-> df.index[k]],
                   !.rows  = [k \in 1..Len(keep) |-> df.rows[keep[k]]]]

\* df.dropna(axis=0, how='any')
dropna(df) ==
    LET keep == CompleteRows(df.rows, 1)
    IN  [df EXCEPT !.index = [k \in 1..Len(keep) |-> df.index[keep[k]]],
                   !.rows  = [k \in 1..Len(keep) |-> df.rows[keep[k]]]]

-----------------------------------------------------------------------------
(* Configuration held by the gis handler (gh) *)

\* gh.length: the number of bands of the stack
length == Len(StackFile)

\* gh.names
names == BandNames

\* '/%s_env_dataframe.csv' % spec below gh.spec_ppa_env
OutPath(spec) == spec \o <<"_env_dataframe.csv">>

-----------------------------------------------------------------------------
(* The sampling loops of create_training_df *)

\* sampling that leaves the passthrough bands unchecked for no-data
SampleValueNoCheck(tbl, sl, j, value) ==
    IF j < sl
    THEN (IF value < NoDataBelow THEN NaN
          ELSE Frac(value - item(tbl, j, 1), item(tbl, j, 2)))
    ELSE Num(value)

\* sampling with the threshold test `value <= -1000`
SampleValueLE(tbl, sl, j, value) ==
    IF j < sl
    THEN (IF value <= NoDataBelow THEN NaN
          ELSE Frac(value - item(tbl, j, 1), item(tbl, j, 2)))
    ELSE (IF value <= NoDataBelow THEN NaN ELSE Num(value))

\* the body of the loop over the occurrences, for band j and raw value
SampleValue(tbl, sl, j, value) ==
    IF j < sl
    THEN (IF value < NoDataBelow THEN NaN
          ELSE Frac(value - item(tbl, j, 1), item(tbl, j, 2)))
    ELSE (IF value < NoDataBelow THEN NaN ELSE Num(value))

\* the bands whose row of mean_std the loops read
StatRowsRead(arr, tbl, sl, row, col) ==
    {j \in 0..length - 1 :
        j < sl /\ \E i \in 1..Len(row) : Cell(arr, j, row[i], col[i]) >= NoDataBelow}

\* band[row[i], col[i]] or mean_std.item raises IndexError somewhere in the loops
RaisesIndexError(arr, tbl, sl, row, col) ==
    \/ \E j \in 0..length - 1, i \in 1..Len(row) :
          \/ ~Indexable(row[i], Len(arr[j + 1]))
          \/ ~Indexable(col[i], Len(arr[j + 1][1]))
    \/ \E j \in StatRowsRead(arr, tbl, sl, row, col) : j >= Len(tbl)

\* X after the loops: one list per band, one value per occurrence
SampleAll(arr, tbl, sl, row, col) ==
    [jj \in 1..length |->
        [i \in 1..Len(row) |->
            SampleValue(tbl, sl, jj - 1, Cell(arr, jj - 1, row[i], col[i]))]]

\* the table built from X and the occurrence columns, before it is written
Assemble(X, lati, long, ppa, row) ==
    LET df0 == Transpose(DataFrame(X))
        df1 == SetSeries(df0, "dLat", lati)
        df2 == SetSeries(df1, "dLon", long)
        df3 == SetSeries(df2, "present/pseudo_absent", ppa)
        df4 == SetList(df3, "row_n", row)
        df5 == rename(df4, zip(Head0(df4.columns, length), names))
    IN  dropna(df5)

-----------------------------------------------------------------------------
(* State *)

VARIABLES
    name,        \* oh.name: the species to process
    scaled_len,  \* gh.scaled_len
    pc,          \* position in create_training_df
    n_done,      \* number of species the loop has taken from oh.name
    error,       \* the exception that ended the run, "" while there is none
    loads,       \* how often each input has been opened or read
    data,        \* prep_training_df: the occurrence table read
    spec, ppa, long, lati, row, col, myarray, mean_std,
    X,           \* the sampled values, band-major
    read_stats,  \* bands whose mean_std row was read for the current species
    input_data,  \* the table to write
    files        \* output directory: path -> [by: position in oh.name, table]

vars == <<name, scaled_len, pc, n_done, error, loads, data, spec, ppa, long,
          lati, row, col, myarray, mean_std, X, read_stats, input_data, files>>

prepVars == <<data, spec, ppa, long, lati, row, col, myarray, mean_std>>

NoTable == [index |-> <<>>, columns |-> <<>>, rows |-> <<>>]
NoSeries == [index |-> <<>>, values |-> <<>>]

Init ==
    /\ name \in SpeciesLists
    /\ scaled_len \in 1..Len(StatsFile)
    /\ pc = "start"
    /\ n_done = 0
    /\ error = ""
    /\ loads = [open |-> 0, array |-> 0, stats |-> 0, occ |-> 0]
    /\ data = <<>>
    /\ spec = <<>>
    /\ ppa = NoSeries /\ long = NoSeries /\ lati = NoSeries
    /\ row = <<>> /\ col = <<>>
    /\ myarray = <<>>
    /\ mean_std = <<>>
    /\ X = <<>>
    /\ read_stats = {}
    /\ input_data = NoTable
    /\ files = <<>>

\* lines 79-80: rasterio.open and gdal.Open of the stack
Open ==
    /\ pc = "start"
    /\ pc' = "loop"
    /\ loads' = [loads EXCEPT !.open = @ + 1]
    /\ UNCHANGED <<name, scaled_len, n_done, error, prepVars, X, read_stats,
                   input_data, files>>

\* prep_training_df that loads the array and the statistics for the first
\* species only and reuses them afterwards
PrepTrainingDfCached ==
    /\ pc = "loop"
    /\ n_done < Len(name)
    /\ \E table \in OccTables :
          /\ data' = table
          /\ spec' = Replace(name[n_done + 1], " ", "_")
          /\ long' = Series(table, "dLon")
          /\ lati' = Series(table, "dLat")
          /\ ppa' = Series(table, "ppa")
          /\ row' = [i \in 1..Len(table) |-> index(table[i].dLon, table[i].dLat)[1]]
          /\ col' = [i \in 1..Len(table) |-> index(table[i].dLon, table[i].dLat)[2]]
    /\ myarray' = StackFile
    /\ mean_std' = SubSeq(StatsFile, 1, scaled_len)
    /\ loads' = IF n_done = 0
                THEN [loads EXCEPT !.occ = @ + 1, !.array = @ + 1, !.stats = @ + 1]
                ELSE [loads EXCEPT !.occ = @ + 1]
    /\ n_done' = n_done + 1
    /\ pc' = "prepped"
    /\ UNCHANGED <<name, scaled_len, error, X, read_stats, input_data, files>>

\* line 81 takes the next species, line 82 calls prep_training_df, which reads
\* the occurrence table `table` from <species>_ppa_dataframe.csv
PrepTrainingDf ==
    /\ pc = "loop"
    /\ n_done < Len(name)
    /\ \E table \in OccTables :
          /\ data' = table
          /\ spec' = Replace(name[n_done + 1], " ", "_")
          /\ long' = Series(table, "dLon")
          /\ lati' = Series(table, "dLat")
          /\ ppa' = Series(table, "ppa")
          /\ row' = [i \in 1..Len(table) |-> index(table[i].dLon, table[i].dLat)[1]]
          /\ col' = [i \in 1..Len(table) |-> index(table[i].dLon, table[i].dLat)[2]]
    /\ myarray' = StackFile
    /\ mean_std' = SubSeq(StatsFile, 1, scaled_len)
    /\ loads' = [loads EXCEPT !.occ = @ + 1, !.array = @ + 1, !.stats = @ + 1]
    /\ n_done' = n_done + 1
    /\ pc' = "prepped"
    /\ UNCHANGED <<name, scaled_len, error, X, read_stats, input_data, files>>

\* line 49: pd.read_csv raises, the occurrence file is missing or unreadable
PrepFails ==
    /\ pc = "loop"
    /\ n_done < Len(name)
    /\ n_done' = n_done + 1
    /\ pc' = "aborted"
    /\ error' = "FileNotFoundError"
    /\ UNCHANGED <<name, scaled_len, loads, prepVars, X, read_stats, input_data, files>>

\* lines 83-101: the loops over bands and occurrences
Sample ==
    /\ pc = "prepped"
    /\ IF RaisesIndexError(myarray, mean_std, scaled_len, row, col)
       THEN /\ pc' = "aborted"
            /\ error' = "IndexError"
            /\ UNCHANGED <<X, read_stats>>
       ELSE /\ pc' = "sampled"
            /\ X' = SampleAll(myarray, mean_std, scaled_len, row, col)
            /\ read_stats' = StatRowsRead(myarray, mean_std, scaled_len, row, col)
            /\ UNCHANGED error
    /\ UNCHANGED <<name, scaled_len, n_done, loads, prepVars, input_data, files>>

\* lines 102-114: the table is assembled, rows with NaN are dropped and to_csv
\* creates or replaces the file of the species
Write ==
    /\ pc = "sampled"
    /\ input_data' = Assemble(X, lati, long, ppa, row)
    /\ files' = (OutPath(spec) :> [by |-> n_done, table |-> input_data']) @@ files
    /\ pc' = "loop"
    /\ UNCHANGED <<name, scaled_len, n_done, error, loads, prepVars, X, read_stats>>

\* lines 102-114: the table is assembled but makedirs or to_csv raises, the
\* destination is not writable
WriteFails ==
    /\ pc = "sampled"
    /\ input_data' = Assemble(X, lati, long, ppa, row)
    /\ pc' = "aborted"
    /\ error' = "OSError"
    /\ UNCHANGED <<name, scaled_len, n_done, loads, prepVars, X, read_stats, files>>

\* line 81: oh.name is exhausted, create_training_df returns
Return ==
    /\ pc = "loop"
    /\ n_done = Len(name)
    /\ pc' = "done"
    /\ UNCHANGED <<name, scaled_len, n_done, error, loads, prepVars, X, read_stats,
                   input_data, files>>

Next ==
    \/ Open
    \/ PrepTrainingDf
    \/ PrepFails
    \/ Sample
    \/ Write
    \/ WriteFails
    \/ Return

Spec == Init /\ [][Next]_vars

-----------------------------------------------------------------------------
(* Vocabulary of the properties *)

\* the file of the current species has just been written
Written == pc \in {"loop", "done"} /\ n_done > 0

\* the table in the file of the current species
TheFile == files[OutPath(spec)].table

\* the occurrences of the current species, by 1-based position
Occs == 1..Len(data)

\* the raw raster value band j holds where the sampler reads for occurrence i
RawAt(j, i) ==
    LET band == StackFile[j + 1]
    IN  band[(row[i] % Len(band)) + 1][(col[i] % Len(band[1])) + 1]

\* occurrence i has a value below the no-data threshold in some band
HasNoData(i) == \E j \in 0..length - 1 : RawAt(j, i) < -1000

\* the index label the occurrence table gives occurrence i
LabelOf(i) == ToString(i - 1)

\* the position of the column called label in table t (0 when there is none)
ColumnOf(t, label) ==
    IF \E c \in 1..Len(t.columns) : t.columns[c] = label
    THEN CHOOSE c \in 1..Len(t.columns) : t.columns[c] = label
    ELSE 0

\* the rows of table t that carry index label l
RowsOf(t, l) == {k \in 1..Len(t.index) : t.index[k] = l}

\* the four columns that follow the band columns
TailColumns == <<"dLat", "dLon", "present/pseudo_absent", "row_n">>

-----------------------------------------------------------------------------
(* C1 *)

\* C1: in the table written for a species no occurrence with a raw value below
\* -1000 in some band (standardised or passthrough) is present, no cell holds
\* the missing marker, and when every occurrence is excluded the file is still
\* written, with its header and no row.
C1_NoDataRowsExcluded ==
    Written =>
        /\ OutPath(spec) \in DOMAIN files
        /\ \A i \in Occs : HasNoData(i) => RowsOf(TheFile, LabelOf(i)) = {}
        /\ \A k \in 1..Len(TheFile.rows) :
              \A c \in 1..Len(TheFile.rows[k]) : TheFile.rows[k][c] # <<0, 0>>
        /\ (\A i \in Occs : HasNoData(i)) =>
              /\ TheFile.rows = <<>>
              /\ Len(TheFile.columns) = length + Len(TailColumns)

\* a table was written, header only, for a species whose two occurrences have
\* no data, one in a standardised band and one in a passthrough band
C1_Witness ==
    /\ Written
    /\ Len(data) = 2
    /\ \E j \in 0..length - 1 : j < scaled_len /\ RawAt(j, 1) < -1000
    /\ \E j \in 0..length - 1 : j >= scaled_len /\ RawAt(j, 2) < -1000
    /\ OutPath(spec) \in DOMAIN files
    /\ TheFile.rows = <<>>

-----------------------------------------------------------------------------
(* C2 *)

\* C2: for a band j < scaled_len and an occurrence whose raw value v is
\* >= -1000 the sampled value is (v - mean) / stddev with mean and stddev of
\* the statistics row at position j; the written table shows that value in
\* the occurrence's row under the band's name.
C2_Standardized ==
    (pc = "sampled" \/ Written) =>
        \A j \in 0..length - 1, i \in Occs :
            (j < scaled_len /\ RawAt(j, i) >= -1000) =>
                LET v == RawAt(j, i)
                    m == StatsFile[j + 1][2]
                    sd == StatsFile[j + 1][3]
                    x == X[j + 1][i]
                IN  /\ x[2] > 0
                    /\ x[1] * sd = (v - m) * x[2]
                    /\ Written =>
                          \A k \in RowsOf(TheFile, LabelOf(i)) :
                              TheFile.rows[k][ColumnOf(TheFile, names[j + 1])] = x

\* two standardised bands with different statistics were sampled and written:
\* 12 with mean 10, stddev 2 gives 1, and 4 with mean 4, stddev 3 gives 0
C2_Witness ==
    /\ Written
    /\ scaled_len = 2
    /\ \E i \in Occs :
          /\ RawAt(0, i) = 12 /\ RawAt(1, i) = 4
          /\ \E k \in RowsOf(TheFile, LabelOf(i)) :
                /\ TheFile.rows[k][1] = <<1, 1>>
                /\ TheFile.rows[k][2] = <<0, 1>>

-----------------------------------------------------------------------------
(* C3 *)

\* C3: for a band j >= scaled_len the sampled value is the raw value v itself
\* whenever v >= -1000, v = -1000 included, and no statistics row is read for
\* such a band.
C3_Passthrough ==
    (pc = "sampled" \/ Written) =>
        /\ \A j \in 0..length - 1, i \in Occs :
              (j >= scaled_len /\ RawAt(j, i) >= -1000) =>
                  /\ X[j + 1][i] = <<RawAt(j, i), 1>>
                  /\ Written =>
                        \A k \in RowsOf(TheFile, LabelOf(i)) :
                            TheFile.rows[k][ColumnOf(TheFile, names[j + 1])]
                                = <<RawAt(j, i), 1>>
        /\ \A j \in read_stats : j < scaled_len

\* a passthrough band held exactly -1000 and the row was written with -1000
C3_Witness ==
    /\ Written
    /\ \E i \in Occs, j \in 0..length - 1 :
          /\ j >= scaled_len
          /\ RawAt(j, i) = -1000
          /\ \E k \in RowsOf(TheFile, LabelOf(i)) : TheFile.rows[k][j + 1] = <<-1000, 1>>

-----------------------------------------------------------------------------
(* C4 *)

-----------------------------------------------------------------------------
(* C5 *)

\* occurrence i resolves to a cell of the grid
InGrid(i) ==
    /\ 0 <= row[i] /\ row[i] < Len(StackFile[1])
    /\ 0 <= col[i] /\ col[i] < Len(StackFile[1][1])

\* C5: an occurrence that resolves outside the grid is sampled as the missing
\* marker in every band, the run does not end in an IndexError, and the
\* occurrence is absent from the written table.
C5_OutOfGridIsMissing ==
    /\ error # "IndexError"
    /\ (pc = "sampled" \/ Written) =>
          \A i \in Occs : ~InGrid(i) =>
              \A j \in 0..length - 1 : X[j + 1][i] = <<0, 0>>
    /\ Written =>
          \A i \in Occs : ~InGrid(i) => RowsOf(TheFile, LabelOf(i)) = {}

-----------------------------------------------------------------------------
(* C6 *)

\* the file of the species at position k of oh.name exists and was written
\* by that species
FileOf(k) ==
    LET p == OutPath(Replace(name[k], " ", "_"))
    IN  p \in DOMAIN files /\ files[p].by = k

\* C6: when the occurrence file of a species cannot be read or its output
\* cannot be written, the species after it in oh.name are still processed and
\* their files written by the time the run ends.
C6_FailureDoesNotAbort ==
    (pc \in {"done", "aborted"} /\ error \in {"FileNotFoundError", "OSError"}) =>
        \A k \in 1..Len(name) : k > n_done => FileOf(k)

-----------------------------------------------------------------------------
(* C7 *)

\* C7: the species of oh.name write to distinct files: the file of a species
\* that has been written is never replaced by the table of a later species.
C7_DistinctOutputFiles ==
    \A k \in 1..Len(name) :
        (k < n_done \/ (k = n_done /\ Written)) => FileOf(k)

-----------------------------------------------------------------------------
(* C8 *)

\* C8: in every row of every written table row_n is the raster row that the
\* transform gives for the row's dLat (the r with north - res*(r+1) < dLat <=
\* north - res*r), whatever the occurrence's position in the occurrence table.
C8_RowNIsRasterRow ==
    \A p \in DOMAIN files :
        LET t == files[p].table
        IN  \A k \in 1..Len(t.rows) :
                LET lat == t.rows[k][ColumnOf(t, "dLat")]
                    r == t.rows[k][ColumnOf(t, "row_n")]
                IN  /\ lat[2] = 1 /\ r[2] = 1
                    /\ Transform.res * r[1] <= Transform.north - lat[1]
                    /\ Transform.north - lat[1] < Transform.res * (r[1] + 1)

\* the first occurrence (position 0) and the second (position 1) both resolve
\* to raster row 1 and both are written with row_n = 1
C8_Witness ==
    /\ Written
    /\ Len(TheFile.rows) = 2
    /\ TheFile.index = <<"0", "1">>
    /\ \A k \in 1..2 : TheFile.rows[k][ColumnOf(TheFile, "row_n")] = <<1, 1>>
    /\ \A i \in Occs : row[i] = 1 /\ col[i] = 1

-----------------------------------------------------------------------------
(* C9 *)

\* the positions of the occurrences with a value >= -1000 in every band
Valid == {i \in Occs : ~HasNoData(i)}

\* C9: the rows of the written table are the occurrences with raw values
\* >= -1000 in every band, once each and in the order of the occurrence table,
\* and every row holds the band values, dLat, dLon and label of one and the
\* same occurrence.
C9_RowsAligned ==
    Written =>
        /\ Len(TheFile.rows) = Cardinality(Valid)
        /\ \A i \in Valid : \E k \in 1..Len(TheFile.rows) : TheFile.index[k] = LabelOf(i)
        /\ \A k \in 1..Len(TheFile.rows) :
              \E i \in Valid :
                  /\ TheFile.index[k] = LabelOf(i)
                  /\ \A k2 \in 1..Len(TheFile.rows), i2 \in Valid :
                        (k < k2 /\ TheFile.index[k2] = LabelOf(i2)) => i < i2
                  /\ \A j \in 0..length - 1 : TheFile.rows[k][j + 1] = X[j + 1][i]
                  /\ TheFile.rows[k][ColumnOf(TheFile, "dLat")] = <<data[i].dLat, 1>>
                  /\ TheFile.rows[k][ColumnOf(TheFile, "dLon")] = <<data[i].dLon, 1>>
                  /\ TheFile.rows[k][ColumnOf(TheFile, "present/pseudo_absent")]
                        = <<data[i].ppa, 1>>

\* the first occurrence was dropped and the second, a different place with a
\* different label, is the only row written
C9_Witness ==
    /\ Written
    /\ Len(data) = 2
    /\ HasNoData(1) /\ ~HasNoData(2)
    /\ data[1].dLat # data[2].dLat /\ data[1].ppa # data[2].ppa
    /\ TheFile.index = <<"1">>

-----------------------------------------------------------------------------
(* C10 *)

Prepared == IF pc = "aborted" /\ error = "FileNotFoundError" THEN n_done - 1 ELSE n_done

====
